---- MODULE Spec2Model ----
(***************************************************************************)
(* Model of the agent-rules permission hook (check_agent_rules.py,         *)
(* agent_rules.py, tool_check.py, convert.py).                             *)
(*                                                                         *)
(* Strings are sequences of one-character strings.  A regular expression   *)
(* is a sequence of tokens of a fragment of Python's re dialect:           *)
(*   "a", "b"   a literal character                                        *)
(*   "."        any character (the command alphabet has no newline)        *)
(*   ".*"       any run of characters, possibly empty                      *)
(*   "^", "$"   start and end of the string                                *)
(*   "("        an unterminated group: re.compile raises re.error          *)
(* A Python dict is a function whose DOMAIN is the set of its keys.        *)
(***************************************************************************)
EXTENDS Integers, Sequences, FiniteSets, TLC

VARIABLES
    pc,        \* position of the run
    command,   \* argument of check_command
    rules,     \* the loaded rules dictionary
    status,    \* returned status: "deny", "ask", "allow" or "None"
    details,   \* returned details dictionary
    file_path, \* argument of check_path: the candidate path string
    base_dir,  \* argument of check_path: the directory of the rules file
    proc_cwd,  \* the working directory of the process (os.getcwd())
    links,     \* the symbolic links of the file system
    is_denied, \* returned verdict of check_path
    forbidden_result, \* what check_forbidden_path returned, once called
    entry_point,    \* the script that runs
    command_tools,  \* config.yaml: COMMAND_TOOLS
    editing_tools,  \* config.yaml: EDITING_TOOLS
    input_data,     \* the JSON object read from standard input
    env_tool,       \* the AGENT_RULES_TOOL environment variable
    tool_arg,       \* the --tool argument
    rules_path_arg, \* the rules path argument
    files,          \* the rules files of the file system
    tool_format,    \* main: the format get_tool_format returned
    rules_path,     \* main: the path load_rules returned
    tool_name,      \* main: the converted entry's tool
    tool_args,      \* main: the converted entry's args
    paths_to_check, \* process_editing_tool: the paths collected
    checked,        \* the paths process_editing_tool passed to check_path
    stdout          \* the JSON objects printed so far

cmdVars == <<command, status>>
pathVars ==
    <<file_path, base_dir, proc_cwd, links, is_denied, forbidden_result>>
inputVars == <<entry_point, command_tools, editing_tools, input_data,
               env_tool, tool_arg, rules_path_arg, files>>
mainVars == <<tool_format, rules_path, tool_name, tool_args,
              paths_to_check, checked, stdout>>

vars == <<pc, rules, details, cmdVars, pathVars, inputVars, mainVars>>

(***************************************************************************)
(* Bounds of the model.                                                    *)
(***************************************************************************)
MaxCmdLen == 2
MaxRules == 2
MaxPathLen == 2
MaxDeny == 2
MaxPaths == 2

Chars == {"a", "b"}

\* All strings over Chars of length at most n.
StringsUpTo(n) == UNION {[1..k -> Chars] : k \in 0..n}

Commands == StringsUpTo(MaxCmdLen)

\* The rule patterns the rules file may hold.
Patterns ==
    { <<"a">>, <<"a", ".*">>, <<".*">>, <<"^", "b", "$">>, <<"(">> }

\* The dictionaries a rule may be: a pattern plus optional reason and context.
RuleDicts ==
    UNION { { [pattern |-> p],
              [pattern |-> p, reason |-> "r1"],
              [pattern |-> p, reason |-> "r2", context |-> "c2"],
              [pattern |-> p, context |-> "c1"] } : p \in Patterns }

\* Lists of at most n rules.
RuleLists(n) == UNION {[1..k -> RuleDicts] : k \in 0..n}

EmptyDict == [k \in {} |-> ""]

(***************************************************************************)
(* Python's re on the token fragment.                                      *)
(***************************************************************************)
\* re.compile succeeds: no unterminated group.
ValidPattern(p) == \A k \in 1..Len(p) : p[k] # "("

\* The offsets at which a match of tokens p[k..] that starts at offset i of s
\* can end.
RECURSIVE MatchEnds(_, _, _, _)
MatchEnds(p, k, s, i) ==
    IF k > Len(p) THEN {i}
    ELSE CASE p[k] = ".*" ->
                UNION {MatchEnds(p, k + 1, s, j) : j \in i..Len(s)}
           [] p[k] = "." ->
                IF i < Len(s) THEN MatchEnds(p, k + 1, s, i + 1) ELSE {}
           [] p[k] = "^" ->
                IF i = 0 THEN MatchEnds(p, k + 1, s, i) ELSE {}
           [] p[k] = "$" ->
                IF i = Len(s) THEN MatchEnds(p, k + 1, s, i) ELSE {}
           [] OTHER ->
                IF i < Len(s) /\ s[i + 1] = p[k]
                THEN MatchEnds(p, k + 1, s, i + 1) ELSE {}

\* re.search(p, s) is not None: a match starting at some offset.
re_search(p, s) == \E i \in 0..Len(s) : MatchEnds(p, 1, s, i) # {}

\* re.fullmatch(p, s) is not None: a match from offset 0 to the end.
re_fullmatch(p, s) == Len(s) \in MatchEnds(p, 1, s, 0)

(***************************************************************************)
(* check_command                                                           *)
(***************************************************************************)
\* dict.get(key, default)
Get(d, key, default) == IF key \in DOMAIN d THEN d[key] ELSE default

\* The details copied from a matching rule: reason and context, when present.
RuleDetails(rule) ==
    [k \in (DOMAIN rule) \cap {"reason", "context"} |-> rule[k]]

\* ScanRules with the two match modes exchanged (search where the code uses
\* fullmatch and fullmatch where it uses search).
RECURSIVE ScanRulesSwapped(_, _, _, _)
ScanRulesSwapped(list, i, cmd, full) ==
    IF i > Len(list) THEN [kind |-> "none"]
    ELSE IF "pattern" \notin DOMAIN list[i] THEN [kind |-> "raise"]
    ELSE IF ~ValidPattern(list[i].pattern) THEN [kind |-> "raise"]
    ELSE IF (IF full THEN re_search(list[i].pattern, cmd)
                     ELSE re_fullmatch(list[i].pattern, cmd))
         THEN [kind |-> "match", details |-> RuleDetails(list[i])]
    ELSE ScanRulesSwapped(list, i + 1, cmd, full)

\* ScanRules in which a later matching rule overrides an earlier one.
RECURSIVE ScanRulesLast(_, _, _, _)
ScanRulesLast(list, i, cmd, full) ==
    IF i > Len(list) THEN [kind |-> "none"]
    ELSE IF "pattern" \notin DOMAIN list[i] THEN [kind |-> "raise"]
    ELSE IF ~ValidPattern(list[i].pattern) THEN [kind |-> "raise"]
    ELSE LET rest == ScanRulesLast(list, i + 1, cmd, full)
         IN  IF rest.kind # "none" THEN rest
             ELSE IF (IF full THEN re_fullmatch(list[i].pattern, cmd)
                              ELSE re_search(list[i].pattern, cmd))
                  THEN [kind |-> "match", details |-> RuleDetails(list[i])]
                  ELSE rest

\* One for-loop of check_command over a rule list, from index i: the first
\* rule whose pattern matches returns; a rule without a pattern or with a
\* pattern that does not compile raises when the loop reaches it.
RECURSIVE ScanRules(_, _, _, _)
ScanRules(list, i, cmd, full) ==
    IF i > Len(list) THEN [kind |-> "none"]
    ELSE IF "pattern" \notin DOMAIN list[i] THEN [kind |-> "raise"]
    ELSE IF ~ValidPattern(list[i].pattern) THEN [kind |-> "raise"]
    ELSE IF (IF full THEN re_fullmatch(list[i].pattern, cmd)
                     ELSE re_search(list[i].pattern, cmd))
         THEN [kind |-> "match", details |-> RuleDetails(list[i])]
    ELSE ScanRules(list, i + 1, cmd, full)

\* check_command left by an exception (re.error, KeyError).
Raised == [kind |-> "raise", status |-> "None", details |-> EmptyDict]

Decision(st, dt) == [kind |-> "return", status |-> st, details |-> dt]

NoDecision == Decision("None", EmptyDict)

\* The three scans of check_command, combined in the order given by
\* allowFirst; emptyGuard keeps or drops the early return on an empty command.
CheckCommandVariant(cmd, rs, emptyGuard, allowFirst) ==
    IF emptyGuard /\ cmd = <<>> THEN NoDecision
    ELSE
    LET d == ScanRules(Get(rs, "deny_commands", <<>>), 1, cmd, FALSE)
        c == ScanRules(Get(rs, "confirm_commands", <<>>), 1, cmd, TRUE)
        a == ScanRules(Get(rs, "allow_commands", <<>>), 1, cmd, TRUE)
        first == IF allowFirst THEN a ELSE c
        second == IF allowFirst THEN c ELSE a
    IN  CASE d.kind = "raise" -> Raised
          [] d.kind = "match" -> Decision("deny", d.details)
          [] first.kind = "raise" -> Raised
          [] first.kind = "match" ->
                Decision(IF allowFirst THEN "allow" ELSE "ask", first.details)
          [] second.kind = "raise" -> Raised
          [] second.kind = "match" ->
                Decision(IF allowFirst THEN "ask" ELSE "allow", second.details)
          [] OTHER -> NoDecision

\* check_command with the allow list consulted before the confirm list.
check_command_allow_first(cmd, rs) == CheckCommandVariant(cmd, rs, TRUE, TRUE)

\* check_command without the early return on an empty command.
check_command_no_empty_guard(cmd, rs) ==
    CheckCommandVariant(cmd, rs, FALSE, FALSE)

\* check_command that indexes the three sections instead of defaulting them:
\* a missing section raises KeyError.
check_command_strict(cmd, rs) ==
    IF cmd = <<>> THEN NoDecision
    ELSE IF ~({"deny_commands", "confirm_commands", "allow_commands"}
                \subseteq DOMAIN rs) THEN Raised
    ELSE CheckCommandVariant(cmd, rs, TRUE, FALSE)

check_command(cmd, rs) ==
    IF cmd = <<>> THEN NoDecision
    ELSE
    LET deny_commands == Get(rs, "deny_commands", <<>>)
        allow_commands == Get(rs, "allow_commands", <<>>)
        confirm_commands == Get(rs, "confirm_commands", <<>>)
        d == ScanRules(deny_commands, 1, cmd, FALSE)
        c == ScanRules(confirm_commands, 1, cmd, TRUE)
        a == ScanRules(allow_commands, 1, cmd, TRUE)
    IN  CASE d.kind = "raise" -> Raised
          [] d.kind = "match" -> Decision("deny", d.details)
          [] c.kind = "raise" -> Raised
          [] c.kind = "match" -> Decision("ask", c.details)
          [] a.kind = "raise" -> Raised
          [] a.kind = "match" -> Decision("allow", a.details)
          [] OTHER -> NoDecision

(***************************************************************************)
(* Paths.  A path string is the list of its "/"-separated components and   *)
(* whether it starts with "/"; the empty string has no component and no    *)
(* leading "/".  A resolved path is the component list of an absolute path *)
(* without ".", ".." or symbolic links.                                    *)
(***************************************************************************)
Names == {"a", "b"}
Comps == Names \cup {"..", "."}

Abs(parts) == [abs |-> TRUE, parts |-> parts]
Rel(parts) == [abs |-> FALSE, parts |-> parts]

EmptyString == Rel(<<>>)
RootDir == Abs(<<>>)

\* A file system without symbolic links.
NoLinks == [q \in {} |-> <<>>]

IsDot(c) == c = "."
NotDot(c) == c # "."

\* pathlib.Path(s): "." components (and empty ones) are dropped, ".." kept.
Path(s) == [abs |-> s.abs, parts |-> SelectSeq(s.parts, NotDot)]

\* base / p: an absolute right operand replaces the left one.
Div(base, p) ==
    IF p.abs THEN p
    ELSE [abs |-> base.abs, parts |-> base.parts \o p.parts]

\* os.path.realpath on the components left to walk from directory cur: ".."
\* steps to the parent (the root is its own parent), a symbolic link is
\* replaced by its target.
RECURSIVE Walk(_, _, _)
Walk(cur, rest, lk) ==
    IF rest = <<>> THEN cur
    ELSE LET c == Head(rest)
             new == Append(cur, c)
         IN  CASE c = "." -> Walk(cur, Tail(rest), lk)
               [] c = ".." ->
                    Walk(IF cur = <<>> THEN cur
                         ELSE SubSeq(cur, 1, Len(cur) - 1), Tail(rest), lk)
               [] OTHER ->
                    Walk(IF new \in DOMAIN lk THEN lk[new] ELSE new,
                         Tail(rest), lk)

\* Path.resolve(): a relative path is taken from the process's working
\* directory.
resolve(p, cwd, lk) == Walk(<<>>, (IF p.abs THEN <<>> ELSE cwd) \o p.parts, lk)

\* PurePath.is_relative_to(other), on resolved paths: other's components are
\* a prefix of the path's.
is_relative_to(path, other) ==
    Len(other) <= Len(path) /\ SubSeq(path, 1, Len(other)) = other

(***************************************************************************)
(* check_path                                                              *)
(***************************************************************************)
\* Whether the candidate (resolved) falls under one deny entry.
\* fromCwd resolves a relative entry against the working directory instead
\* of base_dir; exact drops the containment test.
EntryCoversVariant(forbidden, file_path_abs, base, cwd, lk, fromCwd, exact) ==
    LET forbidden_path == Path(forbidden.path)
        forbidden_path_abs ==
            IF ~forbidden_path.abs /\ ~fromCwd
            THEN resolve(Div(base, forbidden_path), cwd, lk)
            ELSE resolve(forbidden_path, cwd, lk)
    IN  \/ file_path_abs = forbidden_path_abs
        \/ ~exact /\ is_relative_to(file_path_abs, forbidden_path_abs)

\* EntryCovers with relative entries resolved against the working directory.
EntryCoversCwd(forbidden, file_path_abs, base, cwd, lk) ==
    EntryCoversVariant(forbidden, file_path_abs, base, cwd, lk, TRUE, FALSE)

\* EntryCovers with the exact comparison only.
EntryCoversExact(forbidden, file_path_abs, base, cwd, lk) ==
    EntryCoversVariant(forbidden, file_path_abs, base, cwd, lk, FALSE, TRUE)

\* The body of check_path's loop for one entry: the entry's path is resolved
\* (against base_dir when relative) and compared with the candidate, for
\* equality and then for containment.
EntryCovers(forbidden, file_path_abs, base, cwd, lk) ==
    LET forbidden_path == Path(forbidden.path)
        forbidden_path_abs ==
            IF ~forbidden_path.abs
            THEN resolve(Div(base, forbidden_path), cwd, lk)
            ELSE resolve(forbidden_path, cwd, lk)
    IN  \/ file_path_abs = forbidden_path_abs
        \/ is_relative_to(file_path_abs, forbidden_path_abs)

\* ScanDeny returning the last covering entry instead of the first.
RECURSIVE ScanDenyLast(_, _, _, _, _, _)
ScanDenyLast(list, i, file_path_abs, base, cwd, lk) ==
    IF i > Len(list) THEN [kind |-> "none"]
    ELSE IF "path" \notin DOMAIN list[i] THEN [kind |-> "raise"]
    ELSE LET rest == ScanDenyLast(list, i + 1, file_path_abs, base, cwd, lk)
         IN  IF rest.kind # "none" THEN rest
             ELSE IF EntryCovers(list[i], file_path_abs, base, cwd, lk)
                  THEN [kind |-> "match", details |-> RuleDetails(list[i])]
                  ELSE rest

\* check_path's for-loop from index i: the first covering entry returns; an
\* entry without a path raises KeyError when the loop reaches it.
RECURSIVE ScanDeny(_, _, _, _, _, _)
ScanDeny(list, i, file_path_abs, base, cwd, lk) ==
    IF i > Len(list) THEN [kind |-> "none"]
    ELSE IF "path" \notin DOMAIN list[i] THEN [kind |-> "raise"]
    ELSE IF EntryCovers(list[i], file_path_abs, base, cwd, lk)
         THEN [kind |-> "match", details |-> RuleDetails(list[i])]
    ELSE ScanDeny(list, i + 1, file_path_abs, base, cwd, lk)

\* check_path(file_path, deny_list, base_dir), with the process's working
\* directory and the file system's links that Path.resolve() reads.
check_path(fp, deny_list, base, cwd, lk) ==
    IF fp = EmptyString
    THEN [kind |-> "return", is_denied |-> FALSE, details |-> EmptyDict]
    ELSE
    LET file_path_abs == resolve(Path(fp), cwd, lk)
        r == ScanDeny(deny_list, 1, file_path_abs, base, cwd, lk)
    IN  CASE r.kind = "raise" ->
                [kind |-> "raise", is_denied |-> FALSE, details |-> EmptyDict]
          [] r.kind = "match" ->
                [kind |-> "return", is_denied |-> TRUE, details |-> r.details]
          [] OTHER ->
                [kind |-> "return", is_denied |-> FALSE, details |-> EmptyDict]

(***************************************************************************)
(* check_forbidden_path of tool_check.py, the older matcher.               *)
(***************************************************************************)
\* PurePath.name: the last component, "" when there is none.
PathName(q) == IF q.parts = <<>> THEN "" ELSE q.parts[Len(q.parts)]

\* len(PurePath.parts): the root counts as a part.
NumParts(q) == Len(q.parts) + (IF q.abs THEN 1 ELSE 0)

\* The components joined by "/".
RECURSIVE Joined(_)
Joined(parts) ==
    IF Len(parts) <= 1 THEN parts
    ELSE <<Head(parts), "/">> \o Joined(Tail(parts))

\* str(path), as the sequence of its components and separators; the
\* components of the model are single characters or "..".
Str(q) ==
    IF q.abs THEN <<"/">> \o Joined(q.parts)
    ELSE IF q.parts = <<>> THEN <<".">>
    ELSE Joined(q.parts)

\* str.endswith
EndsWith(text, suffix) ==
    /\ Len(suffix) <= Len(text)
    /\ SubSeq(text, Len(text) - Len(suffix) + 1, Len(text)) = suffix

\* The test of check_forbidden_path's loop for one entry.
LegacyCovers(forbidden, path) ==
    LET forbidden_path == Path(forbidden.path)
    IN  /\ PathName(path) = PathName(forbidden_path)
        /\ \/ NumParts(forbidden_path) = 1
           \/ EndsWith(Str(path), Str(forbidden_path))

\* check_forbidden_path's for-loop from index i.
RECURSIVE ScanForbidden(_, _, _)
ScanForbidden(list, i, path) ==
    IF i > Len(list) THEN [kind |-> "none"]
    ELSE IF "path" \notin DOMAIN list[i] THEN [kind |-> "raise"]
    ELSE IF LegacyCovers(list[i], path)
         THEN [kind |-> "match", details |-> RuleDetails(list[i])]
    ELSE ScanForbidden(list, i + 1, path)

\* check_forbidden_path(file_path, forbidden_list)
check_forbidden_path(fp, forbidden_list) ==
    IF fp = EmptyString
    THEN [kind |-> "return", is_forbidden |-> FALSE, details |-> EmptyDict]
    ELSE
    LET r == ScanForbidden(forbidden_list, 1, Path(fp))
    IN  CASE r.kind = "raise" ->
                [kind |-> "raise", is_forbidden |-> FALSE,
                 details |-> EmptyDict]
          [] r.kind = "match" ->
                [kind |-> "return", is_forbidden |-> TRUE,
                 details |-> r.details]
          [] OTHER ->
                [kind |-> "return", is_forbidden |-> FALSE,
                 details |-> EmptyDict]

\* check_forbidden_path has not been called.
NotCalled ==
    [kind |-> "not_called", is_forbidden |-> FALSE, details |-> EmptyDict]

(***************************************************************************)
(* convert.py: the input formats and the canonical tool entry.             *)
(* config.yaml is read at import: its lists are the state of the module.   *)
(***************************************************************************)
None == "None"
VSCODE_COPILOT == "vscode-copilot"
COPILOT_CLI == "copilot-cli"

\* config.yaml, "fields": the keys of a converted entry, in order.
FIELDS == <<"timestamp", "tool", "args", "cwd">>

\* config.yaml, "tool_arg_fields": the argument keys that are kept.
TOOL_ARG_FIELDS == {"command", "filePath", "path"}

Has(d, k) == k \in DOMAIN d

\* A dictionary without some keys.
Without(d, ks) == [k \in (DOMAIN d) \ ks |-> d[k]]

Ok(v) == [kind |-> "ok", value |-> v]
Raise == [kind |-> "raise"]

\* detect_tool_format(entry)
detect_tool_format(entry) ==
    IF Has(entry, "hookEventName") THEN VSCODE_COPILOT
    ELSE IF Has(entry, "toolName") THEN COPILOT_CLI
    ELSE None

\* r.get("filePath") or r.get("path") for one sub-edit; a missing or empty
\* value is shown as the empty string (both are dropped by the filter).
ReplacementPath(r) ==
    IF Has(r, "filePath") /\ r.filePath # EmptyString THEN r.filePath
    ELSE IF Has(r, "path") THEN r.path
    ELSE EmptyString

IsTruthyPath(q) == q # EmptyString

\* filter_args that keeps the sub-edits without a path in the list.
filter_args_keep_empty(args) ==
    LET filtered == [k \in (DOMAIN args) \cap TOOL_ARG_FIELDS |-> args[k]]
        renamed ==
            IF Has(filtered, "filePath")
            THEN ("path" :> filtered.filePath) @@ Without(filtered, {"filePath"})
            ELSE filtered
        paths ==
            IF Has(args, "replacements")
            THEN [i \in 1..Len(args.replacements) |->
                     ReplacementPath(args.replacements[i])]
            ELSE <<>>
    IN  IF paths # <<>> THEN ("paths" :> paths) @@ renamed ELSE renamed

\* filter_args(args), args a dictionary.
filter_args(args) ==
    LET filtered == [k \in (DOMAIN args) \cap TOOL_ARG_FIELDS |-> args[k]]
        renamed ==
            IF Has(filtered, "filePath")
            THEN ("path" :> filtered.filePath) @@ Without(filtered, {"filePath"})
            ELSE filtered
        paths ==
            IF Has(args, "replacements")
            THEN SelectSeq([i \in 1..Len(args.replacements) |->
                               ReplacementPath(args.replacements[i])],
                           IsTruthyPath)
            ELSE <<>>
    IN  IF paths # <<>> THEN ("paths" :> paths) @@ renamed ELSE renamed

\* json.loads of the toolArgs text: [json |-> v] is the text that encodes v,
\* any other text is not JSON.
JsonLoads(text) == IF Has(text, "json") THEN Ok(text.json) ELSE Raise

\* conversion_utils.parse_timestamp: [ms |-> n] is the number n, [iso |-> n]
\* the ISO-8601 text of the instant n; any other text raises ValueError.
parse_timestamp(t) ==
    IF Has(t, "ms") THEN Ok(t.ms)
    ELSE IF Has(t, "iso") THEN Ok(t.iso)
    ELSE Raise

\* The result dictionary convert_tool_entry builds from the configured
\* fields, given the tool name and the arguments it extracted.
BuildResult(entry, name, args, ts) ==
    LET copied == [k \in ({FIELDS[i] : i \in 1..Len(FIELDS)}
                          \ {"timestamp", "tool", "args"}) \cap DOMAIN entry
                   |-> entry[k]]
    IN  ("timestamp" :> ts) @@ ("tool" :> name)
        @@ ("args" :> filter_args(args)) @@ copied

\* convert_tool_entry(entry, tool_format): Ok(result), or Raise on toolArgs
\* that is not JSON or on an entry without a readable timestamp.
convert_tool_entry(entry, format_arg) ==
    LET fmt == IF format_arg = None
                       THEN detect_tool_format(entry) ELSE format_arg
        cli == fmt = COPILOT_CLI
        name == IF cli THEN Get(entry, "toolName", None)
                     ELSE Get(entry, "tool_name", None)
        args == IF cli
                THEN (IF Has(entry, "toolArgs") THEN JsonLoads(entry.toolArgs)
                      ELSE Ok(EmptyDict))
                ELSE Ok(Get(entry, "tool_input", EmptyDict))
        ts == IF Has(entry, "timestamp") THEN parse_timestamp(entry.timestamp)
              ELSE Raise
    IN  IF args.kind = "raise" \/ ts.kind = "raise" THEN Raise
        ELSE Ok(BuildResult(entry, name, args.value, ts.value))

\* get_tool_format(input_data, tool_arg) with the AGENT_RULES_TOOL variable:
\* Ok(format), or Raise (ValueError) when nothing determines the format.
IsTruthyStr(x) == x # None /\ x # ""

\* get_tool_format with the --tool argument ahead of the environment.
get_tool_format_arg_first(input, cli_tool, env) ==
    IF IsTruthyStr(cli_tool) THEN Ok(cli_tool)
    ELSE IF IsTruthyStr(env) THEN Ok(env)
    ELSE LET detected == detect_tool_format(input)
         IN  IF detected = None THEN Raise ELSE Ok(detected)

get_tool_format(input, cli_tool, env) ==
    IF IsTruthyStr(env) THEN Ok(env)
    ELSE IF IsTruthyStr(cli_tool) THEN Ok(cli_tool)
    ELSE LET detected == detect_tool_format(input)
         IN  IF detected = None THEN Raise ELSE Ok(detected)

(***************************************************************************)
(* load_rules and output_decision of the three entry points.               *)
(***************************************************************************)
CHECK_AGENT_RULES == "check_agent_rules.py"
AGENT_RULES == "agent_rules.py"
TOOL_CHECK == "tool_check.py"

\* RulesFileNames with the ".yml" name tried first.
RulesFileNamesYmlFirst(entry) ==
    IF entry = TOOL_CHECK THEN <<"AGENT_RULES.yml", "AGENT_RULES.yaml">>
    ELSE <<"agent-rules.yml", "agent-rules.yaml">>

\* The two file names load_rules tries in the input's cwd, in order.
RulesFileNames(entry) ==
    IF entry = TOOL_CHECK THEN <<"AGENT_RULES.yaml", "AGENT_RULES.yml">>
    ELSE <<"agent-rules.yaml", "agent-rules.yml">>

\* Path.exists() and open(): the file system maps the resolved path of each
\* rules file to what yaml.safe_load makes of it.
Exists(q, fs, cwd, lk) == resolve(q, cwd, lk) \in DOMAIN fs
ReadFile(q, fs, cwd, lk) == fs[resolve(q, cwd, lk)]

\* Path.parent
Parent(q) ==
    IF q.parts = <<>> THEN q
    ELSE [abs |-> q.abs, parts |-> SubSeq(q.parts, 1, Len(q.parts) - 1)]

\* No rules path on the command line.
NoPathArg == [absent |-> TRUE]

\* "if rules_path_arg:" in check_agent_rules.py, "len(sys.argv) > 1" in the
\* two older scripts.
HasPathArg(entry, path_arg) ==
    /\ path_arg # NoPathArg
    /\ entry = CHECK_AGENT_RULES => path_arg # EmptyString

\* The rules file load_rules settles on: Ok(path) or Raise.
FindRulesPath(entry, input, path_arg, fs, cwd, lk) ==
    IF HasPathArg(entry, path_arg)
    THEN IF Exists(Path(path_arg), fs, cwd, lk)
         THEN Ok(Path(path_arg)) ELSE Raise
    ELSE
    LET converted == convert_tool_entry(input, None)
        cwd_field == IF converted.kind = "ok"
                     THEN Get(converted.value, "cwd", EmptyString)
                     ELSE EmptyString
        names == RulesFileNames(entry)
        first == Div(Path(cwd_field), Rel(<<names[1]>>))
        second == Div(Path(cwd_field), Rel(<<names[2]>>))
    IN  IF converted.kind = "raise" THEN Raise
        ELSE IF cwd_field = EmptyString THEN Raise
        ELSE IF Exists(first, fs, cwd, lk) THEN Ok(first)
        ELSE IF Exists(second, fs, cwd, lk) THEN Ok(second)
        ELSE Raise

\* load_rules: Ok([rules, rules_path]) or Raise; a file that is not YAML
\* makes yaml.safe_load raise.
load_rules(entry, input, path_arg, fs, cwd, lk) ==
    LET found == FindRulesPath(entry, input, path_arg, fs, cwd, lk)
    IN  IF found.kind = "raise" THEN Raise
        ELSE LET content == ReadFile(found.value, fs, cwd, lk)
             IN  IF ~Has(content, "yaml") THEN Raise
                 ELSE Ok([rules |-> content.yaml, rules_path |-> found.value])

\* "if reason:" -- a value that is present and not empty.
Given(d, k) == Has(d, k) /\ d[k] # None /\ d[k] # ""

\* output_decision whose flat shape carries the context as well.
output_decision_flat_context(decision, fmt, dt) ==
    IF fmt = VSCODE_COPILOT
    THEN [hookSpecificOutput |->
            (IF Given(dt, "context")
             THEN "additionalContext" :> dt.context ELSE EmptyDict)
            @@ (IF Given(dt, "reason")
                THEN "permissionDecisionReason" :> dt.reason ELSE EmptyDict)
            @@ [hookEventName |-> "PreToolUse",
                permissionDecision |-> decision]]
    ELSE (IF Given(dt, "context")
          THEN "additionalContext" :> dt.context ELSE EmptyDict)
         @@ (IF Given(dt, "reason")
             THEN "permissionDecisionReason" :> dt.reason ELSE EmptyDict)
         @@ [permissionDecision |-> decision]

\* The JSON object output_decision prints.  agent_rules.py and tool_check.py
\* have no tool_format and always print the nested shape.
output_decision(decision, fmt, dt) ==
    IF fmt = VSCODE_COPILOT
    THEN [hookSpecificOutput |->
            (IF Given(dt, "context")
             THEN "additionalContext" :> dt.context ELSE EmptyDict)
            @@ (IF Given(dt, "reason")
                THEN "permissionDecisionReason" :> dt.reason ELSE EmptyDict)
            @@ [hookEventName |-> "PreToolUse",
                permissionDecision |-> decision]]
    ELSE (IF Given(dt, "reason")
          THEN "permissionDecisionReason" :> dt.reason ELSE EmptyDict)
         @@ [permissionDecision |-> decision]

(***************************************************************************)
(* The command matcher on its own: any command against any rules.          *)
(***************************************************************************)
\* The matchers on their own run outside any entry point.
NoEntryPoint ==
    /\ entry_point = None
    /\ command_tools = {}
    /\ editing_tools = {}
    /\ input_data = EmptyDict
    /\ env_tool = None
    /\ tool_arg = None
    /\ rules_path_arg = NoPathArg
    /\ files = EmptyDict
    /\ tool_format = None
    /\ rules_path = EmptyString
    /\ tool_name = None
    /\ tool_args = EmptyDict
    /\ paths_to_check = <<>>
    /\ checked = <<>>
    /\ stdout = <<>>

\* The rules dictionaries with at most MaxRules rules in all.
InitCommand ==
    /\ pc = "call_check_command"
    /\ command \in Commands
    /\ \E d \in RuleLists(MaxRules) :
       \E c \in RuleLists(MaxRules - Len(d)) :
       \E a \in RuleLists(MaxRules - Len(d) - Len(c)) :
          rules = [deny_commands |-> d, confirm_commands |-> c,
                   allow_commands |-> a]
    /\ status = "None"
    /\ details = EmptyDict
    /\ file_path = EmptyString
    /\ base_dir = RootDir
    /\ proc_cwd = <<>>
    /\ links = NoLinks
    /\ is_denied = FALSE
    /\ forbidden_result = NotCalled
    /\ NoEntryPoint

CallCheckCommand ==
    /\ pc = "call_check_command"
    /\ LET r == check_command(command, rules)
       IN  /\ status' = r.status
           /\ details' = r.details
           /\ pc' = IF r.kind = "raise" THEN "check_command_raised"
                    ELSE "check_command_returned"
    /\ UNCHANGED <<command, rules, pathVars, inputVars, mainVars>>

NextCommand == CallCheckCommand

SpecCommand == InitCommand /\ [][NextCommand]_vars

(***************************************************************************)
(* The path matcher on its own: any candidate path against any deny list.  *)
(***************************************************************************)
\* Path strings of at most n components.
PathStrings(n) ==
    UNION {{Abs(q), Rel(q)} : q \in UNION {[1..k -> Comps] : k \in 0..n}}

\* The paths the deny_edits entries may name.
EntryPaths == {Rel(<<"a">>), Abs(<<"a">>), Rel(<<"b">>), Rel(<<"..", "b">>)}

\* The dictionaries a deny_edits entry may be; one lacks its path.
EntryDicts ==
    UNION { { [path |-> q],
              [path |-> q, reason |-> "r1", context |-> "c1"] }
            : q \in EntryPaths }
    \cup { [reason |-> "r2"] }

DenyLists(n) == UNION {[1..k -> EntryDicts] : k \in 0..n}

BaseDirs == {Abs(<<"a">>), Abs(<<"b">>), Rel(<<>>)}
Cwds == {<<"a">>, <<"b", "a">>}
\* Either no symbolic link, or /a/b is a link to /b.
LinkTables == {NoLinks, [q \in {<<"a", "b">>} |-> <<"b">>]}

InitPath ==
    /\ pc = "call_check_path"
    /\ file_path \in PathStrings(MaxPathLen)
    /\ \E dl \in DenyLists(MaxDeny) : rules = [deny_edits |-> dl]
    /\ base_dir \in BaseDirs
    /\ proc_cwd \in Cwds
    /\ links \in LinkTables
    /\ is_denied = FALSE
    /\ forbidden_result = NotCalled
    /\ details = EmptyDict
    /\ command = <<>>
    /\ status = "None"
    /\ NoEntryPoint

CallCheckPath ==
    /\ pc = "call_check_path"
    /\ LET r == check_path(file_path, Get(rules, "deny_edits", <<>>),
                           base_dir, proc_cwd, links)
       IN  /\ is_denied' = r.is_denied
           /\ details' = r.details
           /\ pc' = IF r.kind = "raise" THEN "check_path_raised"
                    ELSE "check_path_returned"
    /\ UNCHANGED <<file_path, base_dir, proc_cwd, links, rules,
                   forbidden_result>>
    /\ UNCHANGED <<cmdVars, inputVars, mainVars>>

NextPath == CallCheckPath

SpecPath == InitPath /\ [][NextPath]_vars

(***************************************************************************)
(* The two path matchers side by side: check_path, then                   *)
(* check_forbidden_path on the same candidate and the same deny list.      *)
(***************************************************************************)
CallCheckForbiddenPath ==
    /\ pc \in {"check_path_returned", "check_path_raised"}
    /\ forbidden_result = NotCalled
    /\ forbidden_result' =
           check_forbidden_path(file_path, Get(rules, "deny_edits", <<>>))
    /\ UNCHANGED <<pc, rules, details, cmdVars, file_path, base_dir, proc_cwd,
                   links, is_denied, inputVars, mainVars>>

NextLegacy == CallCheckPath \/ CallCheckForbiddenPath

SpecLegacy == InitPath /\ [][NextLegacy]_vars

(***************************************************************************)
(* Both matchers: a run is one call of check_command or one of check_path. *)
(***************************************************************************)
InitMatchers == InitCommand \/ InitPath

NextMatchers == CallCheckCommand \/ CallCheckPath

SpecMatchers == InitMatchers /\ [][NextMatchers]_vars

(***************************************************************************)
(* The inputs of a run.                                                    *)
(***************************************************************************)
EntryPoints == {CHECK_AGENT_RULES, AGENT_RULES, TOOL_CHECK}

\* config.yaml, "command_tools" and "editing_tools": a partition of the
\* tools, or "edit" listed as both.
Classifications ==
    { [command_tools |-> {"bash"}, editing_tools |-> {"edit"}],
      [command_tools |-> {"bash", "edit"}, editing_tools |-> {"edit"}] }

ToolNames == {"bash", "edit", "view"}

\* The cwd field of the input and the rules file named on the command line.
InputCwd == Abs(<<"a">>)
RulesFile == Abs(<<"a", "r">>)

\* The input in the shape of the VS Code hook.
VscodeInput(name, args) ==
    [hookEventName |-> "PreToolUse", tool_name |-> name, tool_input |-> args,
     cwd |-> InputCwd, timestamp |-> [iso |-> 1]]

\* The input in the shape of the Copilot CLI: toolArgs is JSON text.
CliInput(name, args) ==
    [toolName |-> name, toolArgs |-> [json |-> args], cwd |-> InputCwd,
     timestamp |-> [ms |-> 1]]

\* The target paths of an edit.
P1 == Abs(<<"a", "b">>)
P2 == Abs(<<"b">>)
P3 == Rel(<<"a">>)

\* The sub-edits of a batch edit.
SubEdits == { [filePath |-> P1], [filePath |-> P2], [path |-> P3], EmptyDict }

\* The arguments of an edit: an optional single path and an optional batch
\* of at most n sub-edits.
EditArgs(n) ==
    LET single == { EmptyDict, [filePath |-> P1], [filePath |-> P2],
                    [path |-> P3], [filePath |-> EmptyString] }
        batch == { EmptyDict } \cup
                 { [replacements |-> l] :
                     l \in UNION {[1..k -> SubEdits] : k \in 0..n} }
    IN  { a @@ b : a \in single, b \in batch }

\* The deny_edits entries of the rules file: /a/b when the file is in /a,
\* /b with details, and an entry without a path.
MainEntryDicts ==
    { [path |-> Rel(<<"b">>)],
      [path |-> Abs(<<"b">>), reason |-> "r1", context |-> "c1"],
      [reason |-> "r2"] }

MainDenyLists(n) == UNION {[1..k -> MainEntryDicts] : k \in 0..n}

\* The command rules of the rules file.
MainRuleDicts ==
    { [pattern |-> <<"a">>, reason |-> "r1"],
      [pattern |-> <<"a", ".*">>, context |-> "c1"],
      [pattern |-> <<"(">>] }

MainRuleLists(n) == UNION {[1..k -> MainRuleDicts] : k \in 0..n}

\* Rules dictionaries with at most n command rules in all.
MainRules(n) ==
    { [deny_commands |-> d, confirm_commands |-> c, allow_commands |-> a] :
        d \in MainRuleLists(n), c \in MainRuleLists(n), a \in MainRuleLists(n) }

\* The arguments of a command action.
CommandArgs ==
    { EmptyDict, [command |-> <<>>], [command |-> <<"a">>],
      [command |-> <<"a", "b">>], [command |-> <<"a">>, filePath |-> P2] }

\* A file system whose only rules file is RulesFile.
OneRulesFile(rs) == (<<"a", "r">> :> [yaml |-> rs])

\* Rules files told apart by what they decide for the command "a".
DenyingRules ==
    [deny_commands |-> <<[pattern |-> <<"a">>, reason |-> "r1"]>>,
     deny_edits |-> <<[path |-> Abs(<<"b">>)]>>]
AskingRules == [confirm_commands |-> <<[pattern |-> <<"a">>]>>]

\* File systems for the search of the rules file: none, the named file
\* (well-formed or not YAML), both names in the input's cwd, the second only.
FileSystems ==
    { EmptyDict,
      OneRulesFile(DenyingRules),
      (<<"a", "r">> :> [text |-> "x"]),
      (<<"a", "agent-rules.yaml">> :> [yaml |-> DenyingRules])
        @@ (<<"a", "agent-rules.yml">> :> [yaml |-> AskingRules])
        @@ (<<"a", "AGENT_RULES.yaml">> :> [yaml |-> DenyingRules])
        @@ (<<"a", "AGENT_RULES.yml">> :> [yaml |-> AskingRules]),
      (<<"a", "agent-rules.yml">> :> [yaml |-> AskingRules])
        @@ (<<"a", "AGENT_RULES.yml">> :> [yaml |-> AskingRules]) }

\* Inputs for the detection of the format and the conversion.
FrontInputs ==
    LET v == VscodeInput("bash", [command |-> <<"a">>])
        c == CliInput("bash", [command |-> <<"a">>])
    IN  { v, c,
          Without(v, {"hookEventName"}),
          Without(v, {"timestamp"}),
          Without(v, {"cwd"}),
          [v EXCEPT !.timestamp = [text |-> "x"]],
          [c EXCEPT !.toolArgs = [text |-> "x"]],
          CliInput("edit", [filePath |-> P2]) }

PathArgs == { NoPathArg, RulesFile, Abs(<<"a", "missing">>), Rel(<<"r">>) }

\* The state when main starts: the inputs, and nothing computed yet.
Start(entry, cls, input, env, cli_tool, path_arg, fs, cwd, lk) ==
    /\ entry_point = entry
    /\ command_tools = cls.command_tools
    /\ editing_tools = cls.editing_tools
    /\ input_data = input
    /\ env_tool = env
    /\ tool_arg = cli_tool
    /\ rules_path_arg = path_arg
    /\ files = fs
    /\ proc_cwd = cwd
    /\ links = lk
    /\ pc = IF entry = CHECK_AGENT_RULES THEN "get_tool_format"
            ELSE "load_rules"
    /\ rules = EmptyDict
    /\ details = EmptyDict
    /\ command = <<>>
    /\ status = "None"
    /\ file_path = EmptyString
    /\ base_dir = RootDir
    /\ is_denied = FALSE
    /\ forbidden_result = NotCalled
    /\ tool_format = None
    /\ rules_path = EmptyString
    /\ tool_name = None
    /\ tool_args = EmptyDict
    /\ paths_to_check = <<>>
    /\ checked = <<>>
    /\ stdout = <<>>

\* An edit against any deny list, in either input shape.
InitEdit ==
    \E args \in EditArgs(MaxPaths), dl \in MainDenyLists(MaxDeny) :
    \E cls \in Classifications, cwd \in Cwds :
    \E run \in { <<CHECK_AGENT_RULES, VscodeInput("edit", args)>>,
                 <<CHECK_AGENT_RULES, CliInput("edit", args)>>,
                 <<AGENT_RULES, VscodeInput("edit", args)>> } :
        Start(run[1], cls, run[2], None, None, RulesFile,
              OneRulesFile([deny_edits |-> dl]), cwd, NoLinks)

\* Any tool with command arguments against any command rules.
InitCommandTool ==
    \E entry \in EntryPoints, cls \in Classifications, name \in ToolNames :
    \E args \in CommandArgs, rs \in MainRules(MaxRules) :
        /\ Len(rs.deny_commands) + Len(rs.confirm_commands)
             + Len(rs.allow_commands) <= MaxRules
        /\ Start(entry, cls, VscodeInput(name, args), None, None, RulesFile,
                 OneRulesFile(rs), <<"a">>, NoLinks)

\* Any way of naming the format and the rules file.
InitFront ==
    \E entry \in EntryPoints, input \in FrontInputs, fs \in FileSystems :
    \E env \in {None, "", COPILOT_CLI, "other-tool"} :
    \E cli_tool \in {None, "", VSCODE_COPILOT} :
    \E path_arg \in PathArgs :
        Start(entry, [command_tools |-> {"bash"}, editing_tools |-> {"edit"}],
              input, env, cli_tool, path_arg, fs, <<"a">>, NoLinks)

Init == InitEdit \/ InitCommandTool \/ InitFront

(***************************************************************************)
(* The command matcher against rules files with missing sections.          *)
(***************************************************************************)
Sections == {"deny_commands", "confirm_commands", "allow_commands"}

\* Any command against the rules of at most MaxRules rules of which any
\* sections are left out.
InitPartial ==
    /\ pc = "call_check_command"
    /\ command \in Commands
    /\ \E rs \in MainRules(MaxRules), present \in SUBSET Sections :
          /\ Len(rs.deny_commands) + Len(rs.confirm_commands)
               + Len(rs.allow_commands) <= MaxRules
          /\ rules = [k \in present |-> rs[k]]
    /\ status = "None"
    /\ details = EmptyDict
    /\ file_path = EmptyString
    /\ base_dir = RootDir
    /\ proc_cwd = <<>>
    /\ links = NoLinks
    /\ is_denied = FALSE
    /\ forbidden_result = NotCalled
    /\ NoEntryPoint

SpecPartial == InitPartial /\ [][NextCommand]_vars

(***************************************************************************)
(* filter_args on its own: any arguments of an action.                     *)
(***************************************************************************)
\* The sub-edits of a batch edit, with and without a path of their own.
FilterSubEdits ==
    SubEdits \cup { [filePath |-> EmptyString, path |-> P3],
                    [filePath |-> P1, path |-> P3],
                    [filePath |-> EmptyString],
                    [oldString |-> "x"] }

\* Arguments of an action: path keys, a batch of at most n sub-edits, and
\* keys that are and are not on the list of kept keys.
FilterArgs(n) ==
    LET single == { EmptyDict, [filePath |-> P1], [path |-> P3],
                    [filePath |-> P2, path |-> P3],
                    [filePath |-> EmptyString] }
        batch == { EmptyDict } \cup
                 { [replacements |-> l] :
                     l \in UNION {[1..k -> FilterSubEdits] : k \in 0..n} }
        other == { EmptyDict, [command |-> <<"a">>], [description |-> "x"],
                   [command |-> <<"a">>, description |-> "x"],
                   [paths |-> <<P1>>] }
    IN  { a @@ b @@ c : a \in single, b \in batch, c \in other }

InitFilter ==
    /\ pc = "call_filter_args"
    /\ \E args \in FilterArgs(MaxPaths) : input_data = [tool_input |-> args]
    /\ tool_args = EmptyDict
    /\ entry_point = None
    /\ command_tools = {}
    /\ editing_tools = {}
    /\ env_tool = None
    /\ tool_arg = None
    /\ rules_path_arg = NoPathArg
    /\ files = EmptyDict
    /\ tool_format = None
    /\ rules_path = EmptyString
    /\ tool_name = None
    /\ paths_to_check = <<>>
    /\ checked = <<>>
    /\ stdout = <<>>
    /\ rules = EmptyDict
    /\ details = EmptyDict
    /\ command = <<>>
    /\ status = "None"
    /\ file_path = EmptyString
    /\ base_dir = RootDir
    /\ proc_cwd = <<>>
    /\ links = NoLinks
    /\ is_denied = FALSE
    /\ forbidden_result = NotCalled

CallFilterArgs ==
    /\ pc = "call_filter_args"
    /\ tool_args' = filter_args(input_data.tool_input)
    /\ pc' = "filter_args_returned"
    /\ UNCHANGED <<rules, details, cmdVars, pathVars, inputVars, tool_format,
                   rules_path, tool_name, paths_to_check, checked, stdout>>

NextFilter == CallFilterArgs

SpecFilter == InitFilter /\ [][NextFilter]_vars

(***************************************************************************)
(* The entry points: one run of main() from the input to the exit.         *)
(***************************************************************************)
\* The format output_decision receives: agent_rules.py and tool_check.py
\* print the nested shape only.
OutputFormat == IF entry_point = CHECK_AGENT_RULES THEN tool_format
                ELSE VSCODE_COPILOT

\* main, check_agent_rules.py: tool_format = get_tool_format(...)
GetToolFormat ==
    /\ pc = "get_tool_format"
    /\ LET r == get_tool_format(input_data, tool_arg, env_tool)
       IN  IF r.kind = "raise"
           THEN pc' = "error" /\ UNCHANGED tool_format
           ELSE pc' = "load_rules" /\ tool_format' = r.value
    /\ UNCHANGED <<rules, details, cmdVars, pathVars, inputVars, rules_path,
                   tool_name, tool_args, paths_to_check, checked, stdout>>

\* main: rules, rules_path = load_rules(...)
LoadRules ==
    /\ pc = "load_rules"
    /\ LET r == load_rules(entry_point, input_data, rules_path_arg, files,
                           proc_cwd, links)
       IN  IF r.kind = "raise"
           THEN pc' = "error" /\ UNCHANGED <<rules, rules_path>>
           ELSE /\ pc' = "convert"
                /\ rules' = r.value.rules
                /\ rules_path' = r.value.rules_path
    /\ UNCHANGED <<details, cmdVars, pathVars, inputVars, tool_format,
                   tool_name, tool_args, paths_to_check, checked, stdout>>

\* The branch main takes on the tool name; tool_check.py has no branch.
DispatchTarget(name) ==
    IF entry_point = TOOL_CHECK THEN "process_command_tool"
    ELSE IF name \in command_tools THEN "process_command_tool"
    ELSE IF name \in editing_tools THEN "process_editing_tool"
    ELSE "done"

\* main: converted = convert_tool_entry(...), then the branch on the tool.
ConvertAndDispatch ==
    /\ pc = "convert"
    /\ LET r == convert_tool_entry(
                    input_data,
                    IF entry_point = CHECK_AGENT_RULES THEN tool_format
                    ELSE None)
       IN  IF r.kind = "raise"
           THEN pc' = "error" /\ UNCHANGED <<tool_name, tool_args>>
           ELSE /\ tool_name' = Get(r.value, "tool", "")
                /\ tool_args' = Get(r.value, "args", EmptyDict)
                /\ pc' = DispatchTarget(tool_name')
    /\ UNCHANGED <<rules, details, cmdVars, pathVars, inputVars, tool_format,
                   rules_path, paths_to_check, checked, stdout>>

\* process_command_tool(args, rules, tool_format)
ProcessCommandTool ==
    /\ pc = "process_command_tool"
    /\ command' = Get(tool_args, "command", <<>>)
    /\ LET r == check_command(command', rules)
       IN  IF r.kind = "raise"
           THEN pc' = "error" /\ UNCHANGED <<status, details, stdout>>
           ELSE /\ status' = r.status
                /\ details' = r.details
                /\ stdout' = IF r.status # "None"
                             THEN Append(stdout,
                                         output_decision(r.status, OutputFormat,
                                                         r.details))
                             ELSE stdout
                /\ pc' = "done"
    /\ UNCHANGED <<rules, pathVars, inputVars, tool_format, rules_path,
                   tool_name, tool_args, paths_to_check, checked>>

\* PathsToCheck with the batch paths ahead of the single path.
PathsToCheckBatchFirst(args) ==
    (IF Has(args, "paths") THEN args.paths ELSE <<>>)
    \o (IF Has(args, "path") /\ args.path # EmptyString
        THEN <<args.path>> ELSE <<>>)

\* The list process_editing_tool builds: args["path"] when it is not empty,
\* then the elements of args["paths"].
PathsToCheck(args) ==
    (IF Has(args, "path") /\ args.path # EmptyString
     THEN <<args.path>> ELSE <<>>)
    \o (IF Has(args, "paths") THEN args.paths ELSE <<>>)

\* process_editing_tool up to its loop: rules_dir and paths_to_check.
ProcessEditingTool ==
    /\ pc = "process_editing_tool"
    /\ base_dir' = Parent(rules_path)
    /\ paths_to_check' = PathsToCheck(tool_args)
    /\ checked' = <<>>
    /\ pc' = "check_paths"
    /\ UNCHANGED <<rules, details, cmdVars, file_path, proc_cwd, links,
                   is_denied, forbidden_result, inputVars, tool_format,
                   rules_path, tool_name,
                   tool_args, stdout>>

\* AfterCheck without the "return True" of the loop body.
AfterCheckNoReturn(denied) == "check_paths"

\* Where the loop of process_editing_tool goes after one check: a forbidden
\* path returns from the function, any other goes on to the next path.
AfterCheck(denied) == IF denied THEN "done" ELSE "check_paths"

\* One turn of the loop of process_editing_tool: the next path is checked;
\* a forbidden one prints the "deny" decision and returns.
CheckNextPath ==
    /\ pc = "check_paths"
    /\ Len(checked) < Len(paths_to_check)
    /\ file_path' = paths_to_check[Len(checked) + 1]
    /\ checked' = Append(checked, file_path')
    /\ LET r == check_path(file_path', Get(rules, "deny_edits", <<>>),
                           base_dir, proc_cwd, links)
       IN  IF r.kind = "raise"
           THEN pc' = "error" /\ UNCHANGED <<is_denied, details, stdout>>
           ELSE /\ is_denied' = r.is_denied
                /\ details' = r.details
                /\ stdout' = IF r.is_denied
                             THEN Append(stdout,
                                         output_decision("deny", OutputFormat,
                                                         r.details))
                             ELSE stdout
                /\ pc' = AfterCheck(r.is_denied)
    /\ UNCHANGED <<rules, cmdVars, base_dir, proc_cwd, links,
                   forbidden_result, inputVars, tool_format, rules_path,
                   tool_name, tool_args, paths_to_check>>

\* The loop of process_editing_tool ends without a forbidden path.
EditingToolReturns ==
    /\ pc = "check_paths"
    /\ Len(checked) = Len(paths_to_check)
    /\ pc' = "done"
    /\ UNCHANGED <<rules, details, cmdVars, pathVars, inputVars, mainVars>>

Next ==
    \/ GetToolFormat
    \/ LoadRules
    \/ ConvertAndDispatch
    \/ ProcessCommandTool
    \/ ProcessEditingTool
    \/ CheckNextPath
    \/ EditingToolReturns

Spec == Init /\ [][Next]_vars


(***************************************************************************)
(* Properties of the command matcher (checked under SpecCommand).          *)
(***************************************************************************)
DenyList == Get(rules, "deny_commands", <<>>)
ConfirmList == Get(rules, "confirm_commands", <<>>)
AllowList == Get(rules, "allow_commands", <<>>)

Compiles(list, i) ==
    "pattern" \in DOMAIN list[i] /\ ValidPattern(list[i].pattern)

\* Rule i of the list has a pattern found somewhere in the command.
Occurs(list, i) == Compiles(list, i) /\ re_search(list[i].pattern, command)

\* Rule i of the list has a pattern matching the command from end to end.
MatchesWhole(list, i) ==
    Compiles(list, i) /\ re_fullmatch(list[i].pattern, command)

SomeOccurs(list) == \E i \in 1..Len(list) : Occurs(list, i)
SomeMatchesWhole(list) == \E i \in 1..Len(list) : MatchesWhole(list, i)
AllCompile(list) == \A i \in 1..Len(list) : Compiles(list, i)

\* check_command has returned a value (it did not raise).
Returned == pc = "check_command_returned"

\* C1 as stated: for every command in which some deny rule's pattern occurs,
\* check_command returns "deny", whatever the confirm and allow rules are.
C1_AsStated == (Returned /\ SomeOccurs(DenyList)) => status = "deny"

\* C1, amended: for every non-empty command in which some deny rule's pattern
\* occurs, with no malformed deny pattern listed before that rule,
\* check_command returns "deny", whatever the confirm and allow rules are.
C1_DenyWins ==
    (/\ Returned
     /\ command # <<>>
     /\ \E i \in 1..Len(DenyList) :
            /\ Occurs(DenyList, i)
            /\ \A j \in 1..(i - 1) : Compiles(DenyList, j))
    => status = "deny"

\* A deny pattern occurs inside the command without matching all of it, an
\* allow rule matches all of it, and the answer is "deny".
C1_Witness ==
    /\ Returned
    /\ status = "deny"
    /\ SomeOccurs(DenyList)
    /\ ~SomeMatchesWhole(DenyList)
    /\ SomeMatchesWhole(AllowList)

\* C2: when check_command returns for a non-empty command, "ask" is returned
\* exactly when no deny rule occurs and some confirm rule matches the whole
\* command, and "allow" exactly when no deny rule occurs, no confirm rule
\* matches the whole command and some allow rule does.
C2_Precedence ==
    (Returned /\ command # <<>>)
    => /\ status = "ask"
            <=> (~SomeOccurs(DenyList) /\ SomeMatchesWhole(ConfirmList))
       /\ status = "allow"
            <=> (/\ ~SomeOccurs(DenyList)
                 /\ ~SomeMatchesWhole(ConfirmList)
                 /\ SomeMatchesWhole(AllowList))

\* A confirm rule and an allow rule both match the whole command: "ask".
C2_Witness ==
    /\ Returned
    /\ SomeMatchesWhole(ConfirmList)
    /\ SomeMatchesWhole(AllowList)
    /\ status = "ask"

\* C3: a command matched in full by no confirm rule never gets "ask", even
\* when a confirm pattern occurs inside it.
C3_ConfirmWhole ==
    (Returned /\ ~SomeMatchesWhole(ConfirmList)) => status # "ask"

\* A confirm pattern occurs inside the command, none matches it in full, no
\* deny rule fires, and the answer is not "ask".
C3_Witness ==
    /\ Returned
    /\ SomeOccurs(ConfirmList)
    /\ ~SomeMatchesWhole(ConfirmList)
    /\ ~SomeOccurs(DenyList)
    /\ status # "ask"

\* The command is an allowed command (one an allow rule matches in full)
\* with at least one more character before or after it.
ExtendsAllowed ==
    \E i \in 1..Len(AllowList) : \E k \in 1..(Len(command) - 1) :
        /\ Compiles(AllowList, i)
        /\ \/ re_fullmatch(AllowList[i].pattern, SubSeq(command, 1, k))
           \/ re_fullmatch(AllowList[i].pattern,
                           SubSeq(command, k + 1, Len(command)))

\* C4: "allow" is returned only if some allow rule matches the whole command;
\* when check_command returns and no list matches (no deny pattern occurs, no
\* confirm or allow rule matches the whole command), as for an allowed
\* command extended by characters the pattern does not cover, the answer is
\* no decision.
C4_AllowWhole ==
    /\ (Returned /\ status = "allow") => SomeMatchesWhole(AllowList)
    /\ (/\ Returned
        /\ ~SomeOccurs(DenyList)
        /\ ~SomeMatchesWhole(ConfirmList)
        /\ ~SomeMatchesWhole(AllowList))
       => status = "None"

\* An allowed command extended by a prefix or suffix gets no decision.
C4_Witness ==
    /\ Returned
    /\ ExtendsAllowed
    /\ ~SomeMatchesWhole(AllowList)
    /\ status = "None"

\* C6: an empty command gets no decision and empty details, whatever the
\* rule lists hold.
C6_EmptyCommand ==
    (Returned /\ command = <<>>)
    => (status = "None" /\ details = EmptyDict)

\* The command is empty and a deny pattern matches the empty string.
C6_Witness ==
    /\ Returned
    /\ command = <<>>
    /\ SomeOccurs(DenyList)
    /\ status = "None"

(***************************************************************************)
(* Properties of the path matcher (checked under SpecPath).                *)
(***************************************************************************)
DenyEdits == Get(rules, "deny_edits", <<>>)

\* The candidate as an absolute path without ".", ".." or links.
ResolvedCandidate == resolve(Path(file_path), proc_cwd, links)

\* A deny entry's path as an absolute path without ".", ".." or links, a
\* relative one taken from base_dir.
ResolvedEntry(e) == resolve(Div(base_dir, Path(e.path)), proc_cwd, links)

\* anc is path q or one of the directories above it.
IsAncestorOrSelf(anc, q) == \E k \in 0..Len(q) : SubSeq(q, 1, k) = anc

\* Entry i of the deny list names the candidate or a directory above it.
Covers(i) ==
    /\ "path" \in DOMAIN DenyEdits[i]
    /\ IsAncestorOrSelf(ResolvedEntry(DenyEdits[i]), ResolvedCandidate)

PathReturned == pc = "check_path_returned"

\* C7: when check_path returns for a non-empty candidate, the candidate is
\* forbidden if and only if, both sides resolved, it equals some deny entry's
\* path or lies beneath it at any depth.
C7_Containment ==
    (PathReturned /\ file_path # EmptyString)
    => (is_denied <=> \E i \in 1..Len(DenyEdits) : Covers(i))

\* A candidate written with ".." is forbidden because it resolves to a path
\* strictly beneath a denied directory.
C7_Witness ==
    /\ PathReturned
    /\ is_denied
    /\ \E k \in 1..Len(file_path.parts) : file_path.parts[k] = ".."
    /\ \E i \in 1..Len(DenyEdits) :
          /\ Covers(i)
          /\ Len(ResolvedEntry(DenyEdits[i])) < Len(ResolvedCandidate)

SomeRelativeEntry ==
    \E i \in 1..Len(DenyEdits) :
        "path" \in DOMAIN DenyEdits[i] /\ ~DenyEdits[i].path.abs

\* The verdict check_path gives in this state is the one it gives from any
\* other working directory of the process.
VerdictIgnoresCwd ==
    \A cwd2 \in Cwds :
        check_path(file_path, DenyEdits, base_dir, cwd2, links).is_denied
            = is_denied

\* C8 as stated: with a relative deny entry, the verdict of check_path does
\* not depend on the process's working directory.
C8_AsStated == (PathReturned /\ SomeRelativeEntry) => VerdictIgnoresCwd

\* C8, amended: with a relative deny entry, an absolute candidate path and
\* an absolute base_dir, the verdict of check_path does not depend on the
\* process's working directory.
C8_BaseDirOnly ==
    (PathReturned /\ SomeRelativeEntry /\ file_path.abs /\ base_dir.abs)
    => VerdictIgnoresCwd

\* base_dir and the working directory differ, and an absolute candidate is
\* forbidden by a relative entry taken from base_dir although no entry would
\* cover it were base_dir the working directory.
C8_Witness ==
    /\ PathReturned
    /\ file_path.abs
    /\ base_dir.abs
    /\ base_dir.parts # proc_cwd
    /\ is_denied
    /\ \A i \in 1..Len(DenyEdits) : Covers(i) => ~DenyEdits[i].path.abs
    /\ ~check_path(file_path, DenyEdits, Abs(proc_cwd), proc_cwd,
                   links).is_denied

(***************************************************************************)
(* First match wins, in both matchers (checked under SpecMatchers).        *)
(***************************************************************************)
\* The details are exactly the reason and context fields of the rule.
DetailsFrom(rule) ==
    /\ DOMAIN details \subseteq {"reason", "context"}
    /\ \A k \in {"reason", "context"} :
          /\ k \in DOMAIN details <=> k \in DOMAIN rule
          /\ k \in DOMAIN rule => details[k] = rule[k]

\* The list of the command matcher that decided.
DecidingList ==
    CASE status = "deny" -> DenyList
      [] status = "ask" -> ConfirmList
      [] OTHER -> AllowList

\* Rule i of the deciding list matches the command, in that list's mode.
Fires(i) ==
    IF status = "deny" THEN Occurs(DecidingList, i)
    ELSE MatchesWhole(DecidingList, i)

\* C5: in both matchers the first matching rule of the deciding list supplies
\* the details: its reason and its context are copied when it has them, and
\* nothing is taken from a later matching rule.
C5_FirstMatchWins ==
    /\ (Returned /\ status # "None")
       => \E i \in 1..Len(DecidingList) :
             /\ Fires(i)
             /\ \A j \in 1..(i - 1) : ~Fires(j)
             /\ DetailsFrom(DecidingList[i])
    /\ (PathReturned /\ is_denied)
       => \E i \in 1..Len(DenyEdits) :
             /\ Covers(i)
             /\ \A j \in 1..(i - 1) : ~Covers(j)
             /\ DetailsFrom(DenyEdits[i])

\* Two entries of the deny list cover the candidate, they differ in their
\* details, and the first one's are returned.
C5_Witness ==
    /\ PathReturned
    /\ is_denied
    /\ Len(DenyEdits) = 2
    /\ Covers(1) /\ Covers(2)
    /\ RuleDetails(DenyEdits[1]) # RuleDetails(DenyEdits[2])
    /\ DetailsFrom(DenyEdits[1])

(***************************************************************************)
(* Properties of the entry points (checked under Spec).                    *)
(***************************************************************************)
\* The run has entered process_editing_tool.
EditRan ==
    \/ pc = "check_paths"
    \/ /\ pc \in {"done", "error"}
       /\ entry_point # TOOL_CHECK
       /\ tool_name \notin command_tools
       /\ tool_name \in editing_tools

\* The target paths of the action in the order presented: the single path,
\* then the paths of the batch.
Presented ==
    LET single == IF "path" \in DOMAIN tool_args
                     /\ tool_args.path # EmptyString
                  THEN <<tool_args.path>> ELSE <<>>
        batch == IF "paths" \in DOMAIN tool_args THEN tool_args.paths
                 ELSE <<>>
    IN  single \o batch

\* What the path matcher says of a target path in this run.
Verdict(q) ==
    check_path(q, Get(rules, "deny_edits", <<>>), Parent(rules_path),
               proc_cwd, links)

Forbidden(q) == Verdict(q).kind = "return" /\ Verdict(q).is_denied

\* The decision a printed object carries, in either shape.
DecisionIn(out) ==
    IF "hookSpecificOutput" \in DOMAIN out
    THEN out.hookSpecificOutput.permissionDecision
    ELSE out.permissionDecision

\* C9: process_editing_tool checks the target paths in the order presented
\* (the single path first, then the batch paths); every path checked before
\* the last one was found not forbidden; when the last path checked is
\* forbidden the function has returned and the output is exactly one "deny"
\* decision with that path's details, otherwise nothing has been printed; a
\* run that ends without output has checked every path; and no printed
\* decision is "ask" or "allow".
C9_EditingTool ==
    EditRan =>
        /\ Len(checked) <= Len(Presented)
        /\ checked = SubSeq(Presented, 1, Len(checked))
        /\ \A i \in 1..(Len(checked) - 1) : ~Forbidden(checked[i])
        /\ IF checked # <<>> /\ Forbidden(checked[Len(checked)])
           THEN /\ pc = "done"
                /\ stdout =
                     <<output_decision("deny", OutputFormat,
                                       Verdict(checked[Len(checked)]).details)>>
           ELSE stdout = <<>>
        /\ (pc = "done" /\ stdout = <<>>) => Len(checked) = Len(Presented)
        /\ \A i \in 1..Len(stdout) : DecisionIn(stdout[i]) = "deny"

\* An edit whose single path is not forbidden, whose first batch path is
\* forbidden by an entry with details, and whose later path was not checked.
C9_Witness ==
    /\ EditRan
    /\ pc = "done"
    /\ "path" \in DOMAIN tool_args
    /\ Len(checked) = 2
    /\ Len(Presented) = 3
    /\ Forbidden(checked[2])
    /\ Verdict(checked[2]).details # EmptyDict
    /\ Len(stdout) = 1

\* C10: in every run of an entry point at most one decision object has been
\* written to standard output.
C10_AtMostOneDecision == Len(stdout) <= 1

\* A finished edit, two of whose target paths are forbidden, with one
\* decision printed.
C10_Witness ==
    /\ EditRan
    /\ pc = "done"
    /\ Len(stdout) = 1
    /\ \E i, j \in 1..Len(Presented) :
          i < j /\ Forbidden(Presented[i]) /\ Forbidden(Presented[j])

\* C11: when the tool of the action is listed neither as a command tool nor
\* as an editing tool, the run prints no decision, in every entry point.
C11_NeitherCategory ==
    (pc = "done" /\ tool_name \notin (command_tools \cup editing_tools))
        => stdout = <<>>

\* C12: a run that ends in a fatal error has written nothing to standard
\* output.
C12_SilentOnError == pc = "error" => stdout = <<>>

\* An edit that aborts on a deny entry without a path at its first target
\* path, while a later target path is forbidden.
C12_Witness ==
    /\ pc = "error"
    /\ EditRan
    /\ Len(checked) = 1
    /\ Verdict(checked[1]).kind = "raise"
    /\ \E i \in 2..Len(Presented) : Forbidden(Presented[i])
    /\ stdout = <<>>

\* C13 as stated: whenever some rule of the three lists has a pattern that is
\* not a valid regular expression, evaluating a non-empty command raises.
C13_AsStated ==
    (/\ pc # "call_check_command"
     /\ command # <<>>
     /\ ~(AllCompile(DenyList) /\ AllCompile(ConfirmList)
          /\ AllCompile(AllowList)))
    => pc = "check_command_raised"

\* The format the fields of the input indicate.
FormatOfFields ==
    IF "hookEventName" \in DOMAIN input_data THEN VSCODE_COPILOT
    ELSE IF "toolName" \in DOMAIN input_data THEN COPILOT_CLI
    ELSE None

\* The format by priority: environment, then --tool, then the fields.
PriorityFormat ==
    IF env_tool \notin {None, ""} THEN env_tool
    ELSE IF tool_arg \notin {None, ""} THEN tool_arg
    ELSE FormatOfFields

\* C14: get_tool_format returns the AGENT_RULES_TOOL variable when it is set
\* and not empty, otherwise the --tool argument when it is given, otherwise
\* the format detected from the input's fields; when none of the three gives
\* a format it raises and no format is returned.
C14_FormatPriority ==
    (entry_point = CHECK_AGENT_RULES /\ pc # "get_tool_format")
    => IF PriorityFormat = None
       THEN pc = "error" /\ tool_format = None
       ELSE tool_format = PriorityFormat

\* The variable is set but empty, --tool names one format and the input's
\* fields indicate the other: the argument decides.
C14_Witness ==
    /\ entry_point = CHECK_AGENT_RULES
    /\ pc = "done"
    /\ env_tool = ""
    /\ tool_arg = VSCODE_COPILOT
    /\ FormatOfFields = COPILOT_CLI
    /\ tool_format = VSCODE_COPILOT

\* The decision the run has printed and what it was printed from.
Printed == stdout[1]
PrintedDecision == IF EditRan THEN "deny" ELSE status
ReasonGiven == "reason" \in DOMAIN details /\ details.reason # ""
ContextGiven == "context" \in DOMAIN details /\ details.context # ""
ReasonKey == IF ReasonGiven THEN {"permissionDecisionReason"} ELSE {}
ContextKey == IF ContextGiven THEN {"additionalContext"} ELSE {}

\* C15: for the vscode-copilot format the printed object has the single key
\* hookSpecificOutput, under which are hookEventName "PreToolUse", the
\* decision, and the reason and the context exactly when they are given; for
\* the copilot-cli format the decision and (exactly when given) the reason
\* are top-level keys and there is no other key, so no context even when one
\* is given.
C15_OutputShapes ==
    stdout # <<>> =>
        IF OutputFormat = VSCODE_COPILOT
        THEN /\ DOMAIN Printed = {"hookSpecificOutput"}
             /\ LET inner == Printed.hookSpecificOutput
                IN  /\ DOMAIN inner = {"hookEventName", "permissionDecision"}
                                        \cup ReasonKey \cup ContextKey
                    /\ inner.hookEventName = "PreToolUse"
                    /\ inner.permissionDecision = PrintedDecision
                    /\ ReasonGiven =>
                         inner.permissionDecisionReason = details.reason
                    /\ ContextGiven =>
                         inner.additionalContext = details.context
        ELSE /\ DOMAIN Printed = {"permissionDecision"} \cup ReasonKey
             /\ Printed.permissionDecision = PrintedDecision
             /\ ReasonGiven => Printed.permissionDecisionReason = details.reason

\* A decision printed in the copilot-cli format from details that have both
\* a reason and a context.
C15_Witness ==
    /\ stdout # <<>>
    /\ OutputFormat = COPILOT_CLI
    /\ ReasonGiven
    /\ ContextGiven

\* get_tool_format raised: the run of check_agent_rules.py ended before
\* load_rules.
FormatRaised ==
    entry_point = CHECK_AGENT_RULES /\ pc = "error" /\ tool_format = None

\* load_rules has returned a rules file, or has raised.
LoadReturned == rules_path # EmptyString
LoadRaised == pc = "error" /\ rules_path = EmptyString /\ ~FormatRaised

\* The rules file at a path, as the process sees it.
FileAt(q) == resolve(q, proc_cwd, links) \in DOMAIN files
ContentAt(q) == files[resolve(q, proc_cwd, links)]

\* load_rules returned the file at q and the rules written in it; a file
\* that is not YAML makes it raise.
LoadedFrom(q) ==
    IF "yaml" \in DOMAIN ContentAt(q)
    THEN LoadReturned /\ rules_path = q /\ rules = ContentAt(q).yaml
    ELSE LoadRaised

\* The input is one convert_tool_entry accepts: a readable timestamp, and
\* JSON in toolArgs when the fields are those of the Copilot CLI.
WellFormedInput ==
    /\ "timestamp" \in DOMAIN input_data
    /\ DOMAIN input_data.timestamp \cap {"ms", "iso"} # {}
    /\ (FormatOfFields = COPILOT_CLI /\ "toolArgs" \in DOMAIN input_data)
          => "json" \in DOMAIN input_data.toolArgs

\* The ".yaml" and the ".yml" candidates in the directory of the input's cwd.
YamlCandidate ==
    Abs(input_data.cwd.parts \o
          <<IF entry_point = TOOL_CHECK THEN "AGENT_RULES.yaml"
            ELSE "agent-rules.yaml">>)
YmlCandidate ==
    Abs(input_data.cwd.parts \o
          <<IF entry_point = TOOL_CHECK THEN "AGENT_RULES.yml"
            ELSE "agent-rules.yml">>)

\* C16: once load_rules is over, with a rules path on the command line the
\* rules come from that file and from no other, and the run has failed when
\* the file does not exist, whatever the input's cwd holds; without one, for
\* an input that can be converted, the run has failed when the input has no
\* cwd, else the rules come from the ".yaml" file of that directory when it
\* exists, else from the ".yml" file when it exists, else the run has failed.
C16_Discovery ==
    (pc \notin {"get_tool_format", "load_rules"} /\ ~FormatRaised) =>
        IF rules_path_arg # NoPathArg
        THEN IF FileAt(rules_path_arg) THEN LoadedFrom(rules_path_arg)
             ELSE LoadRaised
        ELSE WellFormedInput =>
             IF "cwd" \notin DOMAIN input_data THEN LoadRaised
             ELSE IF FileAt(YamlCandidate) THEN LoadedFrom(YamlCandidate)
             ELSE IF FileAt(YmlCandidate) THEN LoadedFrom(YmlCandidate)
             ELSE LoadRaised

\* No rules path is given, both names exist in the input's cwd with
\* different rules, and the rules of the ".yaml" file were loaded.
C16_Witness ==
    /\ pc = "done"
    /\ rules_path_arg = NoPathArg
    /\ "cwd" \in DOMAIN input_data
    /\ FileAt(YamlCandidate)
    /\ FileAt(YmlCandidate)
    /\ ContentAt(YamlCandidate) # ContentAt(YmlCandidate)
    /\ rules_path = YamlCandidate
    /\ rules = ContentAt(YamlCandidate).yaml

\* The two shapes of the input, and a run without a format override.
FirstShape == {"tool_name", "tool_input"} \subseteq DOMAIN input_data
SecondShape == {"toolName", "toolArgs"} \subseteq DOMAIN input_data
NoOverride == env_tool \in {None, ""} /\ tool_arg \in {None, ""}

\* C17 as stated: without a format override, an input keyed by tool_name and
\* tool_input, with or without hookEventName, and an input keyed by toolName
\* and toolArgs both get a format in check_agent_rules.py, and a finished
\* run of any entry point has taken the tool and the arguments from the keys
\* of the input's shape, toolArgs decoded from JSON.
C17_AsStated ==
    (/\ FirstShape \/ SecondShape
     /\ WellFormedInput
     /\ entry_point = CHECK_AGENT_RULES => NoOverride /\ pc # "get_tool_format")
    => /\ ~FormatRaised
       /\ (pc = "done" /\ FirstShape) =>
              /\ tool_name = input_data.tool_name
              /\ tool_args = filter_args(input_data.tool_input)
       /\ (pc = "done" /\ SecondShape) =>
              /\ tool_name = input_data.toolName
              /\ tool_args = filter_args(input_data.toolArgs.json)

(***************************************************************************)
(* Properties of filter_args (checked under SpecFilter).                   *)
(***************************************************************************)
\* A sub-edit carries a non-empty filePath or path; the path it carries.
Carries(r) ==
    \/ "filePath" \in DOMAIN r /\ r.filePath # EmptyString
    \/ "path" \in DOMAIN r /\ r.path # EmptyString

CarriedPath(r) ==
    IF "filePath" \in DOMAIN r /\ r.filePath # EmptyString THEN r.filePath
    ELSE r.path

\* The paths the sub-edits carry, in the order of the sub-edits.
RECURSIVE CarriedPaths(_)
CarriedPaths(l) ==
    IF l = <<>> THEN <<>>
    ELSE (IF Carries(Head(l)) THEN <<CarriedPath(Head(l))>> ELSE <<>>)
         \o CarriedPaths(Tail(l))

\* C19: every key of the result other than path and paths is a kept key of
\* the arguments with its value, and every kept key other than filePath is
\* in the result; filePath is never in the result and its value is under
\* path; paths is in the result exactly when some sub-edit of replacements
\* carries a non-empty filePath or path, and is then the list of the carried
\* paths in sub-edit order.
C19_FilterArgs ==
    pc = "filter_args_returned" =>
        LET args == input_data.tool_input
            kept == (DOMAIN args) \cap TOOL_ARG_FIELDS
        IN  /\ \A k \in (DOMAIN tool_args) \ {"path", "paths"} :
                   k \in kept /\ tool_args[k] = args[k]
            /\ kept \ {"filePath"} \subseteq DOMAIN tool_args
            /\ "filePath" \notin DOMAIN tool_args
            /\ "filePath" \in DOMAIN args => tool_args.path = args.filePath
            /\ "filePath" \notin DOMAIN args =>
                   /\ "path" \in DOMAIN tool_args <=> "path" \in DOMAIN args
                   /\ "path" \in DOMAIN args => tool_args.path = args.path
            /\ "paths" \in DOMAIN tool_args <=>
                   /\ "replacements" \in DOMAIN args
                   /\ \E i \in 1..Len(args.replacements) :
                          Carries(args.replacements[i])
            /\ "paths" \in DOMAIN tool_args =>
                   tool_args.paths = CarriedPaths(args.replacements)

\* Arguments with filePath, a key that is not kept, and two sub-edits of
\* which only the second carries a path.
C19_Witness ==
    /\ pc = "filter_args_returned"
    /\ {"filePath", "description", "replacements"}
         \subseteq DOMAIN input_data.tool_input
    /\ Len(input_data.tool_input.replacements) = 2
    /\ ~Carries(input_data.tool_input.replacements[1])
    /\ "paths" \in DOMAIN tool_args
    /\ Len(tool_args.paths) = 1
    /\ DOMAIN tool_args = {"path", "paths"}

(***************************************************************************)
(* Properties of the command matcher on partial rules (SpecPartial).       *)
(***************************************************************************)
\* The rules with every missing section present and empty.
Completed == [k \in Sections |-> IF k \in DOMAIN rules THEN rules[k] ELSE <<>>]

\* C20: the outcome of check_command on rules with missing sections is the
\* outcome on the same rules with those sections present and empty (the same
\* status and details, and an error only where the completed rules give
\* one), and on rules with no section at all it is no decision with empty
\* details, for every command.
C20_MissingSections ==
    pc # "call_check_command" =>
        LET r == check_command(command, Completed)
        IN  /\ pc = "check_command_raised" <=> r.kind = "raise"
            /\ status = r.status
            /\ details = r.details
            /\ rules = EmptyDict =>
                   /\ pc = "check_command_returned"
                   /\ status = "None"
                   /\ details = EmptyDict

\* Rules with the allow section only, which decides a command.
C20_Witness ==
    /\ pc = "check_command_returned"
    /\ DOMAIN rules = {"allow_commands"}
    /\ status = "allow"
    /\ details # EmptyDict

(***************************************************************************)
(* Properties of the two path matchers (checked under SpecLegacy).         *)
(***************************************************************************)
\* check_forbidden_path has reported the candidate forbidden.
LegacyForbidden ==
    forbidden_result.kind = "return" /\ forbidden_result.is_forbidden

\* Entry i is the one check_forbidden_path reports: the first with the
\* candidate's final component that is a single component or a trailing
\* part of the candidate's string.
LegacyDecides(i) ==
    /\ "path" \in DOMAIN DenyEdits[i]
    /\ LegacyCovers(DenyEdits[i], Path(file_path))
    /\ \A j \in 1..(i - 1) :
          "path" \in DOMAIN DenyEdits[j]
              => ~LegacyCovers(DenyEdits[j], Path(file_path))

ReadAsVscode ==
    "tool_name" \in DOMAIN input_data /\ tool_name = input_data.tool_name
ReadAsCli ==
    "toolName" \in DOMAIN input_data /\ tool_name = input_data.toolName

\* The decision was written in the one shape or in the other.
WrittenNested == "hookSpecificOutput" \in DOMAIN stdout[1]
WrittenFlat == "permissionDecision" \in DOMAIN stdout[1]

\* C22 as stated: in a run of check_agent_rules.py that prints a decision,
\* whatever format get_tool_format returned, the input was read in the
\* shape of the format the decision is written in: tool_name / tool_input
\* with the nested output, or toolName / toolArgs with the flat output.
C22_AsStated ==
    (entry_point = CHECK_AGENT_RULES /\ stdout # <<>>)
    => \/ ReadAsVscode /\ WrittenNested
       \/ ReadAsCli /\ WrittenFlat

====
